---- MODULE Spec2Model ----
(***************************************************************************)
(* Model of zep_python/memory/models.py: the pydantic (v1 API) record      *)
(* types Session, Summary, Message, Memory, MemorySearchPayload and        *)
(* MemorySearchResult, their construction (field validation and            *)
(* defaults), to_dict() and equality.                                      *)
(*                                                                         *)
(* Python values are tagged records [t |-> <type name>, v |-> <payload>]:  *)
(*   None            [t |-> "None"]                                        *)
(*   str             [t |-> "str",   v |-> "abc"]                          *)
(*   int             [t |-> "int",   v |-> 7]                              *)
(*   float           [t |-> "float", v |-> [kind, neg, m, e]]              *)
(*                   kind "fin": the double that repr writes as            *)
(*                   (-1)^neg * m / 10^e, m and e naturals, m not a        *)
(*                   multiple of 10 unless e = 0; "inf"; "nan", which      *)
(*                   also has id, the identity of the float object         *)
(*   dict            [t |-> "dict",  v |-> function from key strings,      *)
(*                    ks |-> the keys in insertion order]                  *)
(*   list            [t |-> "list",  v |-> sequence of values]             *)
(*   model instance  [t |-> <class name>, v |-> function from field names] *)
(* Missing stands for a keyword that the caller did not pass.              *)
(* A str is a string of ASCII characters; a dict has str keys; numbers are *)
(* within the integers the model checker computes with (the repr of a      *)
(* float of 1e16 and more is therefore not modelled). Of object identity   *)
(* only that of nan floats is kept, the one case where "is" and "=="       *)
(* differ: a call that creates a float is given the identity of the new    *)
(* object.                                                                 *)
(***************************************************************************)
EXTENDS Integers, Sequences, FiniteSets, TLC

VARIABLES pc, cls, kwargs, res, dump, rebuilt, kwargs2, other, eq

vars == <<pc, cls, kwargs, res, dump, rebuilt, kwargs2, other, eq>>

\* ------------------------------------------------------------ bounds
MaxInt == 2
MaxMsgs == 2

\* ------------------------------------------------------------ values
Missing == [t |-> "Missing"]
PyNone == [t |-> "None"]
PyStr(s) == [t |-> "str", v |-> s]
PyInt(n) == [t |-> "int", v |-> n]
PyDict(ks, f) == [t |-> "dict", v |-> f, ks |-> ks]
PyList(s) == [t |-> "list", v |-> s]
Instance(c, f) == [t |-> c, v |-> f]

EmptyMap == [x \in {} |-> PyNone]
EmptyDict == PyDict(<<>>, EmptyMap)

ClassNames ==
  {"Session", "Summary", "Message", "Memory", "MemorySearchPayload",
   "MemorySearchResult"}

IsModel(x) == x.t \in ClassNames

Abs(n) == IF n < 0 THEN 0 - n ELSE n

\* ---- floats are IEEE 754 doubles. A decimal m / 10^e with m below 2^31 and
\* e <= 323 is the repr of the double nearest to it and of no other; below
\* that the doubles are the multiples k * 2^-1074, and the nearest one and
\* its repr are computed exactly, on naturals written as sequences of limbs
\* (base 1000, least significant first).

\* 2^1074
Pow2_1074 ==
  <<784, 494, 93, 741, 707, 307, 263, 6, 646, 508, 327, 186, 532, 502, 230,
    615, 414, 333, 552, 769, 358, 512, 56, 810, 340, 556, 159, 649, 355, 103,
    618, 698, 692, 424, 483, 7, 562, 68, 745, 472, 678, 767, 239, 341, 216,
    93, 742, 907, 466, 364, 361, 566, 276, 424, 517, 921, 509, 738, 940, 399,
    13, 867, 476, 793, 385, 737, 808, 389, 911, 811, 316, 864, 77, 187, 495,
    124, 437, 701, 383, 960, 891, 346, 995, 567, 339, 430, 27, 358, 901, 356,
    118, 142, 764, 649, 556, 49, 307, 917, 718, 346, 495, 352, 618, 310, 307,
    253, 402, 202>>

\* 5^1075 = 10^1075 * 2^-1075
Pow5_1075 ==
  <<125, 328, 236, 667, 327, 591, 98, 532, 412, 693, 437, 145, 826, 722, 837,
    213, 396, 451, 185, 513, 28, 821, 705, 49, 324, 968, 994, 667, 948, 186,
    779, 254, 836, 690, 313, 189, 255, 507, 455, 524, 657, 995, 755, 302,
    628, 925, 587, 388, 863, 89, 235, 668, 497, 348, 672, 18, 891, 423, 280,
    373, 239, 636, 879, 881, 653, 623, 912, 524, 239, 646, 591, 386, 711,
    391, 765, 48, 849, 530, 57, 530, 300, 840, 291, 467, 914, 461, 680, 159,
    162, 604, 678, 766, 223, 134, 661, 516, 458, 537, 535, 340, 951, 968,
    600, 673, 324, 176, 740, 506, 577, 930, 761, 967, 7, 339, 736, 450, 393,
    857, 237, 226, 166, 828, 20, 454, 470, 599, 96, 977, 499, 485, 6, 374,
    56, 220, 827, 272, 465, 766, 622, 574, 579, 263, 597, 246, 531, 15, 978,
    351, 409, 338, 834, 927, 332, 551, 558, 279, 928, 311, 706, 903, 269,
    769, 585, 1, 757, 480, 658, 863, 669, 623, 365, 219, 249, 678, 457, 370,
    319, 500, 152, 536, 936, 849, 802, 931, 435, 184, 105, 449, 392, 858,
    290, 392, 226, 570, 515, 659, 35, 315, 906, 93, 539, 800, 739, 938, 819,
    989, 796, 517, 835, 332, 546, 886, 285, 772, 234, 828, 989, 618, 799, 81,
    818, 991, 264, 593, 437, 510, 363, 775, 33, 125, 284, 279, 221, 238, 716,
    130, 990, 252, 618, 68, 411, 643, 439, 828, 208, 327, 62, 292, 282, 703,
    24>>

RECURSIVE Pow10(_)
Pow10(n) == IF n = 0 THEN 1 ELSE 10 * Pow10(n - 1)

FloatFin(neg, m, e) == [t |-> "float", v |-> [kind |-> "fin", neg |-> neg, m |-> m, e |-> e]]

\* limb i of D, limb 1 being the least significant
Limb(D, i) == IF i >= 1 /\ i <= Len(D) THEN D[i] ELSE 0

\* what limb i of D * n receives before the carry, n < 2^31
Term(D, n, i) ==
  Limb(D, i) * (n % 1000) + Limb(D, i - 1) * ((n \div 1000) % 1000)
    + Limb(D, i - 2) * (n \div 1000000)

Carried(low, high) == [d |-> low.d \o high.d, c |-> high.c]

RECURSIVE MulRange(_, _, _, _, _)
MulUpper(low, D, n, lo, hi) == Carried(low, MulRange(D, n, lo, hi, low.c))

\* the limbs lo..hi of D * n and the carry out of them, c being carried in
MulRange(D, n, lo, hi, c) ==
  IF lo = hi
  THEN [d |-> <<(Term(D, n, lo) + c) % 1000>>, c |-> (Term(D, n, lo) + c) \div 1000]
  ELSE MulUpper(MulRange(D, n, lo, (lo + hi) \div 2, c), D, n, ((lo + hi) \div 2) + 1, hi)

\* D * n
BigMul(D, n) == MulRange(D, n, 1, Len(D) + 4, 0).d

\* the decimal digit of N of weight 10^j
Digit(N, j) == (Limb(N, (j \div 3) + 1) \div Pow10(j % 3)) % 10

\* N \div 10^s
RECURSIVE Floor(_, _)
Floor(N, s) == IF s >= 3 * Len(N) THEN 0 ELSE Digit(N, s) + 10 * Floor(N, s + 1)

\* N / 10^s rounded to the nearest integer
Nearest(N, s) == Floor(N, s) + (IF s >= 1 /\ Digit(N, s - 1) >= 5 THEN 1 ELSE 0)

\* the number of units 2^-1074 in the double nearest to m / 10^e
Units(m, e) == Nearest(BigMul(Pow2_1074, m), e)

\* the largest s with a multiple of 10^s strictly between L and R
RECURSIVE Scale(_, _, _)
Scale(L, R, s) == IF Floor(R, s) > Floor(L, s) THEN s ELSE Scale(L, R, s - 1)

Clamp(c, lo, hi) == IF c < lo THEN lo ELSE IF c > hi THEN hi ELSE c

\* of the one-digit decimals x * 10^(s-1), x in E, the nearest to V
NearestOf(E, V, s) ==
  CHOOSE x \in E : \A y \in E :
    /\ y < x => Floor(V, s - 2) >= 5 * (x + y)
    /\ y > x => Floor(V, s - 2) < 5 * (x + y)

\* the shortest decimal between L and R, the nearest to V when there are
\* several; L, V and R are in units of 10^-1075 and s is Scale(L, R, ...)
Shortest(neg, L, V, R, s) ==
  IF Floor(L, s) = 0
  THEN (LET x == NearestOf(((Floor(L, s - 1) + 1)..9) \cup {10 * c : c \in 1..Floor(R, s)},
                           V, s)
        IN  IF x % 10 = 0 THEN FloatFin(neg, x \div 10, 1075 - s)
            ELSE FloatFin(neg, x, 1076 - s))
  ELSE FloatFin(neg, Clamp(Nearest(V, s), Floor(L, s) + 1, Floor(R, s)), 1075 - s)

ShortestIn(neg, L, V, R) == Shortest(neg, L, V, R, Scale(L, R, 3 * Len(R)))

\* the double k * 2^-1074 as the decimal its repr writes
Subnormal(neg, k) ==
  IF k = 0 THEN FloatFin(neg, 0, 0)
  ELSE ShortestIn(neg, BigMul(Pow5_1075, 2 * k - 1), BigMul(Pow5_1075, 2 * k),
                  BigMul(Pow5_1075, 2 * k + 1))

\* the float nearest to (-1)^neg * m / 10^e
RECURSIVE FloatOf(_, _, _)
FloatOf(neg, m, e) ==
  IF m = 0 THEN FloatFin(neg, 0, 0)
  ELSE IF e > 0 /\ m % 10 = 0 THEN FloatOf(neg, m \div 10, e - 1)
  ELSE IF e >= 324 THEN Subnormal(neg, Units(m, e))
  ELSE FloatFin(neg, m, e)

FloatInf(neg) == [t |-> "float", v |-> [kind |-> "inf", neg |-> neg, m |-> 0, e |-> 0]]

\* the nan float object of identity id
FloatNan(id) ==
  [t |-> "float", v |-> [kind |-> "nan", neg |-> FALSE, m |-> 0, e |-> 0, id |-> id]]

IsNan(x) == x.t = "float" /\ x.v.kind = "nan"

\* the float k/2
PyFloat(k) == FloatOf(k < 0, 5 * Abs(k), 1)

\* ------------------------------------------------------------ conversions
Digits == <<"0", "1", "2", "3", "4", "5", "6", "7", "8", "9">>

Ch(s, i) == SubSeq(s, i, i)

\* str(n) for an int n >= 0
RECURSIVE NatToStr(_)
NatToStr(n) ==
  IF n < 10 THEN Digits[n + 1] ELSE NatToStr(n \div 10) \o Digits[(n % 10) + 1]

\* str(n) for an int n
IntToStr(n) == IF n < 0 THEN "-" \o NatToStr(-n) ELSE NatToStr(n)

RECURSIVE Zeros(_)
Zeros(n) == IF n <= 0 THEN "" ELSE "0" \o Zeros(n - 1)

PadTo(str, w) == IF Len(str) >= w THEN str ELSE "0" \o str

\* str(x) for a float x (its repr): inf, nan, the positional form, or the
\* exponent form for a magnitude below 1e-4
FloatToStr(x) ==
  LET sign == IF x.neg THEN "-" ELSE ""
      ds == NatToStr(x.m)
      nd == Len(NatToStr(x.m))
  IN  CASE x.kind = "nan" -> "nan"
        [] x.kind = "inf" -> sign \o "inf"
        [] x.kind = "fin" /\ x.e = 0 -> sign \o ds \o ".0"
        [] x.kind = "fin" /\ x.e > 0 /\ x.e - nd >= 4 ->
             sign \o Ch(ds, 1) \o (IF nd > 1 THEN "." \o SubSeq(ds, 2, nd) ELSE "")
                  \o "e-" \o PadTo(NatToStr(x.e - nd + 1), 2)
        [] x.kind = "fin" /\ x.e > 0 /\ x.e - nd < 4 /\ x.e >= nd ->
             sign \o "0." \o Zeros(x.e - nd) \o ds
        [] OTHER ->
             sign \o SubSeq(ds, 1, nd - x.e) \o "." \o SubSeq(ds, nd - x.e + 1, nd)

IsDigit(c) == \E i \in 1..10 : Digits[i] = c

DigitVal(c) == (CHOOSE i \in 1..10 : Digits[i] = c) - 1

\* the blanks int() and float() strip: space, tab, line feed, vertical tab,
\* form feed, carriage return
WS == {" ", "\t", "\n", "", "\f", "\r"}

RECURSIVE LStrip(_)
LStrip(s) == IF Len(s) > 0 /\ Ch(s, 1) \in WS THEN LStrip(SubSeq(s, 2, Len(s))) ELSE s

RECURSIVE RStrip(_)
RStrip(s) ==
  IF Len(s) > 0 /\ Ch(s, Len(s)) \in WS THEN RStrip(SubSeq(s, 1, Len(s) - 1)) ELSE s

Strip(s) == RStrip(LStrip(s))

\* s is a run of decimal digits, single underscores allowed between digits
IsDigitGroup(s) ==
  /\ Len(s) > 0
  /\ IsDigit(Ch(s, 1))
  /\ IsDigit(Ch(s, Len(s)))
  /\ \A i \in 1..Len(s) : IsDigit(Ch(s, i)) \/ Ch(s, i) = "_"
  /\ \A i \in 1..(Len(s) - 1) : ~(Ch(s, i) = "_" /\ Ch(s, i + 1) = "_")

\* the number a digit group writes
RECURSIVE GroupVal(_)
GroupVal(s) ==
  IF Len(s) = 0 THEN 0
  ELSE IF Ch(s, Len(s)) = "_" THEN GroupVal(SubSeq(s, 1, Len(s) - 1))
  ELSE 10 * GroupVal(SubSeq(s, 1, Len(s) - 1)) + DigitVal(Ch(s, Len(s)))

\* the number of digits of a digit group
RECURSIVE GroupLen(_)
GroupLen(s) ==
  IF Len(s) = 0 THEN 0
  ELSE GroupLen(SubSeq(s, 1, Len(s) - 1)) + (IF Ch(s, Len(s)) = "_" THEN 0 ELSE 1)

HasSign(s) == Len(s) > 0 /\ Ch(s, 1) \in {"+", "-"}

Unsigned(s) == IF HasSign(s) THEN SubSeq(s, 2, Len(s)) ELSE s

\* s starts with a minus sign
IsNegative(s) == HasSign(s) /\ Ch(s, 1) = "-"

\* int(s): blanks stripped, an optional sign, a digit group; anything else
\* raises ValueError (ok = FALSE)
ParseInt(s) ==
  LET t == Strip(s)
      body == Unsigned(t)
  IN  IF IsDigitGroup(body)
      THEN [ok |-> TRUE,
            n |-> IF IsNegative(t) THEN 0 - GroupVal(body) ELSE GroupVal(body)]
      ELSE [ok |-> FALSE, n |-> 0]

LowerCh(c) ==
  CASE c = "I" -> "i" [] c = "N" -> "n" [] c = "F" -> "f" [] c = "A" -> "a"
    [] c = "T" -> "t" [] c = "Y" -> "y" [] OTHER -> c

RECURSIVE Lower(_)
Lower(s) == IF Len(s) = 0 THEN "" ELSE LowerCh(Ch(s, 1)) \o Lower(SubSeq(s, 2, Len(s)))

\* the position of the first character of s that is in C, 0 when there is none
FirstOf(s, C) ==
  IF \E i \in 1..Len(s) : Ch(s, i) \in C
  THEN CHOOSE i \in 1..Len(s) : Ch(s, i) \in C /\ \A j \in 1..(i - 1) : Ch(s, j) \notin C
  ELSE 0

\* the float d / 10^scale
Scaled(neg, d, scale) ==
  FloatOf(neg, IF scale < 0 THEN d * Pow10(0 - scale) ELSE d, IF scale < 0 THEN 0 ELSE scale)

\* the number an exponent part writes: an optional sign and a digit group
ExpVal(expo) ==
  IF IsNegative(expo) THEN 0 - GroupVal(Unsigned(expo)) ELSE GroupVal(Unsigned(expo))

\* the integer digits ip, the fraction digits fp and the exponent part: each of
\* ip and fp is empty or a digit group, not both empty, and the exponent part,
\* when there is one, is a signed digit group
ParseParts(neg, ip, fp, hasExp, expo) ==
  IF /\ Len(ip) = 0 \/ IsDigitGroup(ip)
     /\ Len(fp) = 0 \/ IsDigitGroup(fp)
     /\ Len(ip) > 0 \/ Len(fp) > 0
     /\ ~hasExp \/ IsDigitGroup(Unsigned(expo))
  THEN [ok |-> TRUE,
        v |-> Scaled(neg, GroupVal(ip \o fp),
                     GroupLen(fp) - (IF hasExp THEN ExpVal(expo) ELSE 0))]
  ELSE [ok |-> FALSE, v |-> PyNone]

\* the mantissa split at its point, which is at position q (0: no point)
ParsePoint(neg, mant, q, hasExp, expo) ==
  ParseParts(neg, IF q = 0 THEN mant ELSE SubSeq(mant, 1, q - 1),
             IF q = 0 THEN "" ELSE SubSeq(mant, q + 1, Len(mant)), hasExp, expo)

ParseMant(neg, mant, hasExp, expo) ==
  ParsePoint(neg, mant, FirstOf(mant, {"."}), hasExp, expo)

\* the unsigned text split at its exponent mark, which is at position p (0: no
\* exponent)
ParseDecimal(neg, body, p) ==
  ParseMant(neg, IF p = 0 THEN body ELSE SubSeq(body, 1, p - 1), p # 0,
            IF p = 0 THEN "" ELSE SubSeq(body, p + 1, Len(body)))

ParseSigned(neg, body, at) ==
  IF Lower(body) \in {"inf", "infinity"} THEN [ok |-> TRUE, v |-> FloatInf(neg)]
  ELSE IF Lower(body) = "nan" THEN [ok |-> TRUE, v |-> FloatNan(at)]
  ELSE ParseDecimal(neg, body, FirstOf(body, {"e", "E"}))

ParseStripped(t, at) == ParseSigned(IsNegative(t), Unsigned(t), at)

\* float(s): blanks stripped, an optional sign, then inf, infinity or nan in
\* any case, or digits with an optional point and an optional exponent;
\* anything else raises ValueError (ok = FALSE). The result is a new float
\* object: at is its identity
ParseFloat(s, at) == ParseStripped(Strip(s), at)

\* ------------------------------------------------------------ schemas
\* A field declaration: its validator, whether None is accepted, whether the
\* keyword must be passed, and the default used when it is not.
Fld(type, allow_none, required, default) ==
  [type |-> type, allow_none |-> allow_none, required |-> required,
   default |-> default]

\* name: T            (annotation only: required)
Req(type) == Fld(type, FALSE, TRUE, Missing)

\* name: T = Field("text")   (the first positional argument of Field is the
\* default: the field is not required and None is not accepted)
Dflt(type, d) == Fld(type, FALSE, FALSE, d)

\* name: Optional[T] = None,  Optional[T] = Field(default=None)
Opt(type) == Fld(type, TRUE, FALSE, PyNone)

\* name: Optional[T] = Field(default=d)
OptDflt(type, d) == Fld(type, TRUE, FALSE, d)

SessionSchemaPlaceholder ==
  [uuid |-> Opt("str"), id |-> Opt("int"), created_at |-> Opt("str"),
   updated_at |-> Opt("str"), deleted_at |-> Opt("str"),
   session_id |-> Dflt("str", PyStr("A session_id is required")),
   user_id |-> Opt("str"), metadata |-> Opt("dict")]

SessionSchema ==
  [uuid |-> Opt("str"), id |-> Opt("int"), created_at |-> Opt("str"),
   updated_at |-> Opt("str"), deleted_at |-> Opt("str"),
   session_id |-> Req("str"), user_id |-> Opt("str"), metadata |-> Opt("dict")]

SummarySchema ==
  [uuid |-> Dflt("str", PyStr("A uuid is required")),
   created_at |-> Dflt("str", PyStr("A created_at is required")),
   content |-> Dflt("str", PyStr("Content is required")),
   recent_message_uuid |-> Dflt("str", PyStr("A recent_message_uuid is required")),
   token_count |-> Dflt("int", PyStr("A token_count is required"))]

MessageSchema ==
  [role |-> Dflt("str", PyStr("A role is required")),
   content |-> Dflt("str", PyStr("Content is required")),
   uuid |-> Opt("str"), created_at |-> Opt("str"), token_count |-> Opt("int"),
   metadata |-> Opt("dict")]

MemorySchemaNoneDefault ==
  [messages |-> Opt("ListMessage"),
   metadata |-> Opt("dict"), summary |-> Opt("Summary"), uuid |-> Opt("str"),
   created_at |-> Opt("str"), token_count |-> Opt("int")]

MemorySchema ==
  [messages |-> Dflt("ListMessage", PyList(<<>>)),
   metadata |-> Opt("dict"), summary |-> Opt("Summary"), uuid |-> Opt("str"),
   created_at |-> Opt("str"), token_count |-> Opt("int")]

MemorySearchPayloadSchemaNoDefaults ==
  [text |-> Opt("str"), metadata |-> Opt("dict"), search_scope |-> Opt("str"),
   search_type |-> Opt("str"), mmr_lambda |-> Opt("float")]

MemorySearchPayloadSchemaEnum ==
  [text |-> Opt("str"), metadata |-> Opt("dict"),
   search_scope |-> OptDflt("SearchScope", PyStr("messages")),
   search_type |-> OptDflt("str", PyStr("similarity")),
   mmr_lambda |-> Opt("float")]

MemorySearchPayloadSchema ==
  [text |-> Opt("str"), metadata |-> Opt("dict"),
   search_scope |-> OptDflt("str", PyStr("messages")),
   search_type |-> OptDflt("str", PyStr("similarity")),
   mmr_lambda |-> Opt("float")]

MemorySearchResultSchema ==
  [message |-> Opt("dict"), summary |-> Opt("Summary"), metadata |-> Opt("dict"),
   dist |-> Opt("float")]

\* the fields of a class in declaration order
FieldOrder(c) ==
  CASE c = "Session" ->
         <<"uuid", "id", "created_at", "updated_at", "deleted_at", "session_id",
           "user_id", "metadata">>
    [] c = "Summary" ->
         <<"uuid", "created_at", "content", "recent_message_uuid", "token_count">>
    [] c = "Message" ->
         <<"role", "content", "uuid", "created_at", "token_count", "metadata">>
    [] c = "Memory" ->
         <<"messages", "metadata", "summary", "uuid", "created_at", "token_count">>
    [] c = "MemorySearchPayload" ->
         <<"text", "metadata", "search_scope", "search_type", "mmr_lambda">>
    [] c = "MemorySearchResult" -> <<"message", "summary", "metadata", "dist">>

Schema(c) ==
  CASE c = "Session" -> SessionSchema
    [] c = "Summary" -> SummarySchema
    [] c = "Message" -> MessageSchema
    [] c = "Memory" -> MemorySchema
    [] c = "MemorySearchPayload" -> MemorySearchPayloadSchema
    [] c = "MemorySearchResult" -> MemorySearchResultSchema

\* class SearchScope(str, Enum)
SearchScope == {"messages", "summary"}

\* the classes whose body defines to_dict()
HasToDict(c) == c \in {"Summary", "Message", "Memory"}

\* ------------------------------------------------------------ serialization
\* only instances are converted, a list is returned as it is
RECURSIVE GetValueShallow(_)
GetValueShallow(x) ==
  IF IsModel(x)
  THEN PyDict(FieldOrder(x.t), [k \in DOMAIN x.v |-> GetValueShallow(x.v[k])])
  ELSE x

\* BaseModel.dict(): field name -> value, nested instances, dicts and lists
\* converted recursively
RECURSIVE GetValue(_)
GetValue(x) ==
  IF IsModel(x) THEN PyDict(FieldOrder(x.t), [k \in DOMAIN x.v |-> GetValue(x.v[k])])
  ELSE IF x.t = "dict" THEN PyDict(x.ks, [k \in DOMAIN x.v |-> GetValue(x.v[k])])
  ELSE IF x.t = "list" THEN PyList([i \in 1..Len(x.v) |-> GetValue(x.v[i])])
  ELSE x

\* dict(exclude_none=True): the fields holding None are left out
ModelDictExcludeNone(x) ==
  LET Kept(k) == x.v[k].t # "None"
  IN  PyDict(SelectSeq(FieldOrder(x.t), Kept),
             [k \in {f \in DOMAIN x.v : Kept(f)} |-> GetValue(x.v[k])])

\* the body of to_dict(): self.dict()
ModelDict(x) == GetValue(x)

\* x.to_dict(): only Summary, Message and Memory define the method
ToDictCall(x) ==
  IF HasToDict(x.t) THEN [status |-> "ok", v |-> ModelDict(x)]
  ELSE [status |-> "AttributeError", v |-> PyNone]

\* ------------------------------------------------------------ equality
\* == on two numbers: by value across int and float; nan equals nothing
NumEq(a, b) ==
  CASE a.t = "int" /\ b.t = "int" -> a.v = b.v
    [] a.t = "int" /\ b.t = "float" ->
         b.v.kind = "fin" /\ b.v.e = 0 /\ (IF b.v.neg THEN 0 - b.v.m ELSE b.v.m) = a.v
    [] a.t = "float" /\ b.t = "int" ->
         a.v.kind = "fin" /\ a.v.e = 0 /\ (IF a.v.neg THEN 0 - a.v.m ELSE a.v.m) = b.v
    [] OTHER ->
         /\ a.v.kind = b.v.kind
         /\ a.v.kind # "nan"
         /\ a.v.m = b.v.m
         /\ a.v.e = b.v.e
         /\ a.v.neg = b.v.neg \/ (a.v.kind = "fin" /\ a.v.m = 0)

IsNum(x) == x.t \in {"int", "float"}

\* a is b, where that differs from a == b: a nan float and itself
SameObject(a, b) == IsNan(a) /\ IsNan(b) /\ a.v.id = b.v.id

RECURSIVE PlainEq(_, _)

\* the comparison of the elements of two lists, of the values of two dicts
\* and of dict keys: a is b or a == b
ElemEq(a, b) == SameObject(a, b) \/ PlainEq(a, b)

\* == on values that hold no instance: numbers by value, dicts by key set and
\* values whatever the order, lists elementwise
PlainEq(a, b) ==
  IF IsNum(a) /\ IsNum(b) THEN NumEq(a, b)
  ELSE IF a.t # b.t THEN FALSE
  ELSE IF a.t \in {"None", "Missing"} THEN TRUE
  ELSE IF a.t = "str" THEN a.v = b.v
  ELSE IF a.t = "list"
  THEN Len(a.v) = Len(b.v) /\ \A i \in 1..Len(a.v) : ElemEq(a.v[i], b.v[i])
  ELSE DOMAIN a.v = DOMAIN b.v /\ \A k \in DOMAIN a.v : ElemEq(a.v[k], b.v[k])

\* Python's ==: BaseModel.__eq__ compares the dict() form of an instance with
\* the dict() form of the other instance, or with the other value itself, so
\* instances, at any depth, compare as the mappings of their fields
PyEq(a, b) == PlainEq(GetValue(a), GetValue(b))

ModelEqRoleContent(a, b) == PyEq(a.v.role, b.v.role) /\ PyEq(a.v.content, b.v.content)

\* BaseModel.__eq__ between two instances: their dict() forms are equal
ModelEq(a, b) == PyEq(ModelDict(a), ModelDict(b))

\* ------------------------------------------------------------ validation
Ok(v) == [ok |-> TRUE, v |-> v]
Fail == [ok |-> FALSE, v |-> PyNone]

\* the result of a validator from the outcome r of the call it makes
Outcome(r) == IF r.ok THEN Ok(r.v) ELSE Fail

StrValidateStrict(x) == IF x.t = "str" THEN Ok(x) ELSE Fail

\* the str validator: a str is kept, a number is formatted, the rest fails
StrValidate(x) ==
  CASE x.t = "str" -> Ok(x)
    [] x.t = "int" -> Ok(PyStr(IntToStr(x.v)))
    [] x.t = "float" -> Ok(PyStr(FloatToStr(x.v)))
    [] OTHER -> Fail

\* int(x) for a finite float: truncation towards zero
Truncated(neg, m, e) ==
  IF e >= Len(NatToStr(m)) THEN 0
  ELSE IF neg THEN 0 - (m \div Pow10(e))
  ELSE m \div Pow10(e)

IntParsed(r) == IF r.ok THEN Ok(PyInt(r.n)) ELSE Fail

\* the int validator: an int is kept, everything else goes through int(x),
\* which truncates a float towards zero and raises on inf and nan
IntValidate(x) ==
  CASE x.t = "int" -> Ok(x)
    [] x.t = "float" ->
         (IF x.v.kind # "fin" THEN Fail ELSE Ok(PyInt(Truncated(x.v.neg, x.v.m, x.v.e))))
    [] x.t = "str" -> IntParsed(ParseInt(x.v))
    [] OTHER -> Fail

\* the float validator: a float is kept (the same object), everything else
\* goes through float(x), which makes a new object of identity at
FloatValidate(x, at) ==
  CASE x.t = "float" -> Ok(x)
    [] x.t = "int" -> Ok(FloatOf(x.v < 0, Abs(x.v), 0))
    [] x.t = "str" -> Outcome(ParseFloat(x.v, at))
    [] OTHER -> Fail

\* the validator of a field annotated SearchScope: only the members' values
EnumValidate(x) == IF x.t = "str" /\ x.v \in SearchScope THEN Ok(x) ELSE Fail

\* an element of the iterable given to dict(): any iterable of length 2 is a
\* key/value pair (a list of two values, a str of two characters, a dict of
\* two keys, iterated in order)
IsPair(e) ==
  \/ e.t = "list" /\ Len(e.v) = 2
  \/ e.t = "str" /\ Len(e.v) = 2
  \/ e.t = "dict" /\ Len(e.ks) = 2

PairOf(e) ==
  CASE e.t = "list" -> <<e.v[1], e.v[2]>>
    [] e.t = "str" -> <<PyStr(Ch(e.v, 1)), PyStr(Ch(e.v, 2))>>
    [] e.t = "dict" -> <<PyStr(e.ks[1]), PyStr(e.ks[2])>>

\* a value that can be a dict key
Hashable(k) == k.t \in {"None", "str", "int", "float"}

\* d[k] = v on a sequence of items: the value of an equal key is replaced,
\* a new key is added at the end
PutItem(items, kv) ==
  IF \E j \in 1..Len(items) : ElemEq(items[j][1], kv[1])
  THEN LET j == CHOOSE j \in 1..Len(items) : ElemEq(items[j][1], kv[1])
       IN  [items EXCEPT ![j] = <<items[j][1], kv[2]>>]
  ELSE Append(items, kv)

RECURSIVE PutAll(_, _)
PutAll(items, rest) ==
  IF Len(rest) = 0 THEN items ELSE PutAll(PutItem(items, Head(rest)), Tail(rest))

\* the builtin dict(x) as its items in order: a dict is copied, a model
\* instance yields its fields, an empty str or list yields {}, a list of pairs
\* yields the mapping; a non-empty str, a number, an element that is no pair
\* and a key that is not hashable raise
DictItems(x) ==
  CASE x.t = "dict" -> Ok([i \in 1..Len(x.ks) |-> <<PyStr(x.ks[i]), x.v[x.ks[i]]>>])
    [] IsModel(x) ->
         Ok([i \in 1..Len(FieldOrder(x.t)) |->
               <<PyStr(FieldOrder(x.t)[i]), x.v[FieldOrder(x.t)[i]]>>])
    [] x.t = "str" -> (IF x.v = "" THEN Ok(<<>>) ELSE Fail)
    [] x.t = "list" ->
         (IF \A i \in 1..Len(x.v) : IsPair(x.v[i]) /\ Hashable(PairOf(x.v[i])[1])
          THEN Ok(PutAll(<<>>, [i \in 1..Len(x.v) |-> PairOf(x.v[i])]))
          ELSE Fail)
    [] OTHER -> Fail

\* the dict whose items, with str keys, are given in order
DictFromItems(items) ==
  PyDict([i \in 1..Len(items) |-> items[i][1].v],
         [k \in {items[i][1].v : i \in 1..Len(items)} |->
            items[CHOOSE i \in 1..Len(items) : items[i][1].v = k][2]])

\* the items d of dict(x) with every key through the str validator (a later
\* item wins over an earlier one of the same key), the values as they are
StrKeyed(d) ==
  IF ~d.ok THEN Fail
  ELSE IF \E i \in 1..Len(d.v) : ~StrValidate(d.v[i][1]).ok THEN Fail
  ELSE Ok(DictFromItems(
         PutAll(<<>>, [i \in 1..Len(d.v) |-> <<StrValidate(d.v[i][1]).v, d.v[i][2]>>])))

\* the validator of a Dict[str, Any] field: dict(x), then the keys validated
DictOf(x) == StrKeyed(DictItems(x))

\* the keywords a mapping passes to a class: the declared fields it holds,
\* Missing for the others; keys that are no field are ignored
KwOf(c, f) == [k \in DOMAIN Schema(c) |-> IF k \in DOMAIN f THEN f[k] ELSE Missing]

RECURSIVE ValidateModel(_, _, _), Coerce(_, _, _), FieldValidate(_, _, _)

\* cls(**d) for the items d of dict(x): a key that is no str cannot be a
\* keyword (TypeError)
FromItems(c, d, at) ==
  IF d.ok /\ \A i \in 1..Len(d.v) : d.v[i][1].t = "str"
  THEN Outcome(ValidateModel(c, KwOf(c, DictFromItems(d.v).v), at))
  ELSE Fail

\* Model.validate(x) for a field whose type is the class c: an instance of c
\* is taken (copied), anything else is turned into keywords through dict(x)
ModelValidate(c, x, at) == IF x.t = c THEN Ok(x) ELSE FromItems(c, DictItems(x), at)

\* the list of the validated elements, or the error of one of them
ListOf(rs) ==
  IF \A i \in 1..Len(rs) : rs[i].ok THEN Ok(PyList([i \in 1..Len(rs) |-> rs[i].v]))
  ELSE Fail

\* the validator of a field type, on a value that is neither missing nor
\* None; the objects it creates take their identities from at
Coerce(type, x, at) ==
  CASE type = "str" -> StrValidate(x)
    [] type = "int" -> IntValidate(x)
    [] type = "float" -> FloatValidate(x, at)
    [] type = "dict" -> DictOf(x)
    [] type = "SearchScope" -> EnumValidate(x)
    [] type = "Summary" -> ModelValidate("Summary", x, at)
    [] type = "ListMessage" ->
         (IF x.t # "list" THEN Fail
          ELSE ListOf([i \in 1..Len(x.v) |->
                         ModelValidate("Message", x.v[i], at \o "." \o NatToStr(i - 1))]))

\* one field of validate_model: a missing keyword is an error when the field
\* is required and otherwise takes the default, which is not validated; None
\* is accepted only by a field that allows it; other values are validated
FieldValidate(fd, x, at) ==
  IF x.t = "Missing" THEN (IF fd.required THEN Fail ELSE Ok(fd.default))
  ELSE IF x.t = "None" THEN (IF fd.allow_none THEN Ok(PyNone) ELSE Fail)
  ELSE Coerce(fd.type, x, at)

\* the instance of c when every field result in r is ok, else
\* ValidationError with the fields in error
Construction(c, r) ==
  IF \A f \in DOMAIN r : r[f].ok
  THEN [ok |-> TRUE, v |-> Instance(c, [f \in DOMAIN r |-> r[f].v]), errs |-> {}]
  ELSE [ok |-> FALSE, v |-> PyNone, errs |-> {f \in DOMAIN r : ~r[f].ok}]

\* Class(**kw): every field validated; at names the call, and the objects the
\* call creates take their identities from it
ValidateModel(c, kw, at) ==
  Construction(c, [f \in DOMAIN Schema(c) |->
                     FieldValidate(Schema(c)[f], kw[f], at \o "." \o f)])

\* ------------------------------------------------------------ inputs
\* The keyword sets the constructors are called with: per field, Missing (the
\* keyword is not passed) and a few values of the right and of other types.
Ints == {PyInt(n) : n \in 0..MaxInt}

MetaA == PyDict(<<"k">>, [k |-> PyInt(1)])

\* a mapping that holds the nan float object of identity id
MetaNan(id) == PyDict(<<"k">>, [k |-> FloatNan(id)])

MsgA ==
  ValidateModel("Message",
    KwOf("Message", [role |-> PyStr("user"), content |-> PyStr("hi")]), "a").v
MsgB ==
  ValidateModel("Message",
    KwOf("Message", [role |-> PyStr("assistant"), content |-> PyStr("yo"),
                   uuid |-> PyStr("m9"), token_count |-> PyInt(1)]), "b").v
SumA ==
  ValidateModel("Summary",
    KwOf("Summary", [uuid |-> PyStr("s1"), created_at |-> PyStr("t1"),
                   content |-> PyStr("recap"), recent_message_uuid |-> PyStr("m9"),
                   token_count |-> PyInt(1)]), "s").v

SessionInputs ==
  [uuid : {Missing, PyNone, PyStr("u1")},
   id : {Missing, PyStr("hi"), PyInt(MaxInt)},
   created_at : {Missing, PyStr("t1")},
   updated_at : {Missing, PyStr("t2")},
   deleted_at : {Missing, PyNone},
   session_id : {Missing, PyNone, PyStr("sess"), PyInt(1), EmptyDict},
   user_id : {Missing, PyStr("bob")},
   metadata : {Missing, MetaA, PyStr("hi")}]

SummaryInputs ==
  [uuid : {Missing, PyNone, PyStr("s1")},
   created_at : {Missing, PyStr("t1"), PyInt(0)},
   content : {Missing, PyStr("recap")},
   recent_message_uuid : {Missing, PyStr("m9"), EmptyDict},
   token_count : {Missing, PyNone, PyStr("7"), PyStr("1_0 "), PyStr("hi"), PyFloat(3),
                  PyFloat(-3), FloatNan("x")} \cup Ints]

MessageCands ==
  [role |-> {Missing, PyNone, PyStr("user"), PyInt(7), EmptyDict},
   content |-> {Missing, PyStr("hi"), PyFloat(3)},
   uuid |-> {Missing, PyNone, PyStr("m1")},
   created_at |-> {Missing, PyStr("t1")},
   token_count |-> {Missing, PyStr("7"), PyStr("hi"), PyFloat(3)} \cup Ints,
   metadata |-> {Missing, EmptyDict, MetaA, MetaNan("x"), MetaNan("y"), PyStr("hi")}]

MessageInputs ==
  [role : MessageCands.role, content : MessageCands.content, uuid : MessageCands.uuid,
   created_at : MessageCands.created_at, token_count : MessageCands.token_count,
   metadata : MessageCands.metadata]

\* the elements a messages list is built from: instances, mappings that
\* validate, and values that do not
MsgElems ==
  {MsgA, MsgB, PyDict(<<"role", "content">>, [role |-> PyStr("user"), content |-> PyStr("hi")]),
   PyDict(<<"role", "content">>, [role |-> PyNone, content |-> PyStr("hi")]), PyInt(1)}

RECURSIVE SeqsUpTo(_, _)
SeqsUpTo(S, n) ==
  IF n = 0 THEN {<<>>}
  ELSE SeqsUpTo(S, n - 1) \cup
       {Append(q, e) : q \in {r \in SeqsUpTo(S, n - 1) : Len(r) = n - 1}, e \in S}

MemoryInputs ==
  [messages : {Missing, PyNone, PyStr("hi")} \cup {PyList(q) : q \in SeqsUpTo(MsgElems, MaxMsgs)},
   metadata : {Missing, MetaA},
   summary : {Missing, PyNone, SumA, ModelDict(SumA), PyStr("hi")},
   uuid : {Missing, PyStr("u1")},
   created_at : {Missing, PyStr("t1")},
   token_count : {Missing, PyInt(MaxInt), PyStr("hi")}]

MemorySearchPayloadInputs ==
  [text : {Missing, PyNone, PyStr("hello"), PyInt(1)},
   metadata : {Missing, MetaA, PyInt(1)},
   search_scope : {Missing, PyNone, PyStr("messages"), PyStr("summary"),
                   PyStr("everything"), PyStr(""), PyInt(1), EmptyDict},
   search_type : {Missing, PyStr("similarity"), PyStr("mmr"), PyStr("exact"),
                  EmptyDict},
   mmr_lambda : {Missing, PyNone, PyFloat(1), PyInt(1), PyStr("0.5"), PyStr("hi"),
                 EmptyDict, FloatNan("x"), PyStr("nan"), PyStr("1e-400")}]

MemorySearchResultInputs ==
  [message : {Missing, PyNone, PyDict(<<"role", "content">>, [role |-> PyStr("user"), content |-> PyStr("hi")]),
              MsgA, PyStr("hi"), PyList(<<PyStr("ab")>>)},
   summary : {Missing, PyNone, SumA, PyDict(<<"uuid">>, [uuid |-> PyStr("s1")]), PyStr(""), PyInt(1),
              PyList(<<PyStr("ab")>>)},
   metadata : {Missing, MetaA},
   dist : {Missing, PyFloat(1), PyInt(1), PyStr("hi"), PyStr("-.5e1"), PyStr("12345e-327")}]

\* ------------------------------------------------------------ state machine
NoResult == [ok |-> FALSE, v |-> PyNone, errs |-> {}]
NoDump == [status |-> "unset", v |-> PyNone]

Init ==
  /\ pc = "start"
  /\ cls = "none"
  /\ kwargs = EmptyMap
  /\ res = NoResult
  /\ dump = NoDump
  /\ rebuilt = NoResult
  /\ kwargs2 = EmptyMap
  /\ other = NoResult
  /\ eq = FALSE

\* r = Class(**kw), the first call of a run
Construct(c, kw) ==
  /\ pc' = "built"
  /\ cls' = c
  /\ kwargs' = kw
  /\ res' = ValidateModel(c, kw, "r")
  /\ UNCHANGED <<dump, rebuilt, kwargs2, other, eq>>

NewSession == pc = "start" /\ \E kw \in SessionInputs : Construct("Session", kw)
NewSummary == pc = "start" /\ \E kw \in SummaryInputs : Construct("Summary", kw)
NewMessage == pc = "start" /\ \E kw \in MessageInputs : Construct("Message", kw)
NewMemory == pc = "start" /\ \E kw \in MemoryInputs : Construct("Memory", kw)
NewMemorySearchPayload ==
  pc = "start" /\ \E kw \in MemorySearchPayloadInputs : Construct("MemorySearchPayload", kw)
NewMemorySearchResult ==
  pc = "start" /\ \E kw \in MemorySearchResultInputs : Construct("MemorySearchResult", kw)

\* d = r.to_dict()
ToDict ==
  /\ pc = "built"
  /\ res.ok
  /\ pc' = "dumped"
  /\ dump' = ToDictCall(res.v)
  /\ UNCHANGED <<cls, kwargs, res, rebuilt, kwargs2, other, eq>>

\* r2 = Class(**d)
Rebuild ==
  /\ pc = "dumped"
  /\ dump.status = "ok"
  /\ pc' = "rebuilt"
  /\ rebuilt' = ValidateModel(cls, KwOf(cls, dump.v.v), "r2")
  /\ UNCHANGED <<cls, kwargs, res, dump, kwargs2, other, eq>>

\* m2 = Message(**kw2); eq = (m == m2), kw2 being kw with one keyword f set
\* to x (to the value it has, or to another one)
Compare ==
  /\ pc = "built"
  /\ cls = "Message"
  /\ res.ok
  /\ \E f \in DOMAIN MessageCands : \E x \in MessageCands[f] :
       LET kw2 == [kwargs EXCEPT ![f] = x]
           m2 == ValidateModel("Message", kw2, "m2")
       IN  /\ m2.ok
           /\ kwargs2' = kw2
           /\ other' = m2
           /\ eq' = ModelEq(res.v, m2.v)
  /\ pc' = "compared"
  /\ UNCHANGED <<cls, kwargs, res, dump, rebuilt>>

Next ==
  \/ NewSession
  \/ NewSummary
  \/ NewMessage
  \/ NewMemory
  \/ NewMemorySearchPayload
  \/ NewMemorySearchResult
  \/ ToDict
  \/ Rebuild
  \/ Compare

Spec == Init /\ [][Next]_vars

\* ------------------------------------------------------------ properties
Called == pc # "start"

Supplied(f) == kwargs[f].t # "Missing"

OnlySupplied(F) == \A f \in DOMAIN kwargs : Supplied(f) => f \in F

\* a and b are the same value (the tags are compared first)
SameVal(a, b) == a.t = b.t /\ a = b

SummaryFields == {"uuid", "created_at", "content", "recent_message_uuid", "token_count"}
MessageFields == {"role", "content", "uuid", "created_at", "token_count", "metadata"}
SessionOptionalFields ==
  {"uuid", "id", "created_at", "updated_at", "deleted_at", "user_id", "metadata"}

ScalarTypes == {"str", "int", "float", "dict"}

\* x is a value of the declared type fd.type (None when the field is Optional)
HasDeclaredType(fd, x) ==
  \/ x.t = "None" /\ fd.allow_none
  \/ fd.type \in ScalarTypes /\ x.t = fd.type
  \/ fd.type = "Summary" /\ x.t = "Summary"
  \/ fd.type = "ListMessage" /\ x.t = "list" /\ \A i \in 1..Len(x.v) : x.v[i].t = "Message"

\* C1: constructing a Message with role or content absent, or a Summary with
\* any of its five fields absent, fails with a validation error and produces
\* no record.
C1_MissingRequiredFails ==
  /\ (Called /\ cls = "Message" /\ (~Supplied("role") \/ ~Supplied("content"))) => ~res.ok
  /\ (Called /\ cls = "Summary" /\ \E f \in SummaryFields : ~Supplied(f)) => ~res.ok

\* C2: a Session without session_id fails with a validation error; a Session
\* with only session_id (a str) is constructed, holds that session_id, and
\* every other field is None.
C2_SessionIdRequired ==
  (Called /\ cls = "Session") =>
    /\ ~Supplied("session_id") => (~res.ok /\ "session_id" \in res.errs)
    /\ (kwargs.session_id.t = "str" /\ OnlySupplied({"session_id"})) =>
         /\ res.ok
         /\ res.v.t = "Session"
         /\ SameVal(res.v.v.session_id, kwargs.session_id)
         /\ \A f \in SessionOptionalFields : res.v.v[f].t = "None"

C2_Witness ==
  /\ pc = "built" /\ cls = "Session" /\ res.ok
  /\ kwargs.session_id.t = "str" /\ OnlySupplied({"session_id"})

\* the field sets of C3: every required field supplied, every supplied value
\* of the declared type (None for an optional field of Message)
ValidFieldSet ==
  /\ cls = "Summary" => \A f \in SummaryFields : Supplied(f)
  /\ cls = "Message" => Supplied("role") /\ Supplied("content")
  /\ \A f \in DOMAIN kwargs : Supplied(f) => HasDeclaredType(Schema(cls)[f], kwargs[f])

\* C3: for every valid field set of Summary and of Message the record is
\* constructed; to_dict() returns a mapping whose keys are exactly the declared
\* field names, each supplied field mapped to the supplied value and each
\* omitted one to None; constructing again from that mapping yields an equal
\* record.
C3_ToDictRoundTrip ==
  (Called /\ cls \in {"Summary", "Message"} /\ ValidFieldSet) =>
    /\ res.ok
    /\ pc \in {"dumped", "rebuilt"} =>
         /\ dump.status = "ok"
         /\ dump.v.t = "dict"
         /\ DOMAIN dump.v.v = (IF cls = "Summary" THEN SummaryFields ELSE MessageFields)
         /\ \A f \in DOMAIN dump.v.v :
              IF Supplied(f) THEN SameVal(dump.v.v[f], kwargs[f])
              ELSE dump.v.v[f].t = "None"
    /\ pc = "rebuilt" => (rebuilt.ok /\ ModelEq(rebuilt.v, res.v) /\ rebuilt.v = res.v)

C3_Witness ==
  /\ pc = "rebuilt" /\ cls = "Message" /\ ValidFieldSet
  /\ OnlySupplied({"role", "content"}) /\ rebuilt.ok

\* C4: a Memory constructed with messages omitted or with an empty messages
\* list holds messages = [] (not None), and its to_dict() maps the key
\* messages to [].
C4_EmptyMessages ==
  (Called /\ cls = "Memory"
     /\ (~Supplied("messages") \/ (kwargs.messages.t = "list" /\ Len(kwargs.messages.v) = 0))) =>
    /\ OnlySupplied({"messages"}) => res.ok
    /\ res.ok => (res.v.v.messages.t = "list" /\ Len(res.v.v.messages.v) = 0)
    /\ pc = "dumped" =>
         /\ dump.status = "ok"
         /\ "messages" \in DOMAIN dump.v.v
         /\ dump.v.v.messages.t = "list"
         /\ Len(dump.v.v.messages.v) = 0

C4_Witness ==
  /\ pc = "dumped" /\ cls = "Memory" /\ ~Supplied("messages") /\ dump.status = "ok"

\* C5: a MemorySearchPayload constructed with only text has search_scope
\* "messages", search_type "similarity", metadata None, mmr_lambda None and the
\* supplied text; constructed with no field at all, its text is None too.
C5_PayloadDefaults ==
  (Called /\ cls = "MemorySearchPayload" /\ OnlySupplied({"text"})
     /\ kwargs.text.t \in {"str", "Missing"}) =>
    /\ res.ok
    /\ SameVal(res.v.v.search_scope, PyStr("messages"))
    /\ SameVal(res.v.v.search_type, PyStr("similarity"))
    /\ res.v.v.metadata.t = "None"
    /\ res.v.v.mmr_lambda.t = "None"
    /\ IF Supplied("text") THEN SameVal(res.v.v.text, kwargs.text)
       ELSE res.v.v.text.t = "None"

C5_Witness ==
  /\ pc = "built" /\ cls = "MemorySearchPayload" /\ res.ok
  /\ OnlySupplied({"text"}) /\ kwargs.text.t = "str"

\* C6: two Message instances are equal exactly when all six of their fields
\* are equal: two built from the same keywords are equal, two that differ in a
\* field are not.
C6_MessageEquality ==
  pc = "compared" =>
    /\ eq <=> \A f \in MessageFields : PyEq(res.v.v[f], other.v.v[f])
    /\ (\A f \in MessageFields : SameVal(kwargs2[f], kwargs[f])) => eq

C6_Witness ==
  /\ pc = "compared" /\ ~eq
  /\ ~PyEq(res.v.v.content, other.v.v.content)
  /\ \A f \in MessageFields \ {"content"} : PyEq(res.v.v[f], other.v.v[f])

\* C7 as stated: construction raises whenever a supplied value is not of the
\* field's declared type, and every field of a constructed record holds a
\* value of its declared type.
C7_MismatchRaises ==
  Called =>
    /\ (\E f \in DOMAIN kwargs :
          /\ Supplied(f)
          /\ Schema(cls)[f].type \in ScalarTypes
          /\ ~HasDeclaredType(Schema(cls)[f], kwargs[f])) => ~res.ok
    /\ res.ok => \A f \in DOMAIN kwargs : HasDeclaredType(Schema(cls)[f], res.v.v[f])

\* the strs that int() and float() read as a number, among those supplied
IntNumerals == {"7", "1_0 "}
FloatNumerals == {"7", "0.5", "-.5e1", "nan", "1e-400", "12345e-327"}

\* the supplied value x can be converted to the scalar type
Convertible(type, x) ==
  CASE type = "str" -> x.t \in {"str", "int", "float"}
    [] type = "int" ->
         \/ x.t = "int"
         \/ x.t = "float" /\ x.v.kind = "fin"
         \/ x.t = "str" /\ x.v \in IntNumerals
    [] type = "float" -> x.t \in {"int", "float"} \/ (x.t = "str" /\ x.v \in FloatNumerals)
    [] type = "dict" ->
         \/ x.t = "dict"
         \/ IsModel(x)
         \/ x.t = "str" /\ x.v = ""
         \/ x.t = "list" /\ \A i \in 1..Len(x.v) : x.v[i].t = "str" /\ Len(x.v[i].v) = 2

\* the keyword of field f is in error
Rejected(f) ==
  LET fd == Schema(cls)[f]
  IN  IF ~Supplied(f) THEN fd.required
      ELSE IF kwargs[f].t = "None" THEN ~fd.allow_none
      ELSE ~Convertible(fd.type, kwargs[f])

\* C7 (amended): a scalar field is in error exactly when its keyword is
\* required and missing, is None for a field that is not Optional, or cannot
\* be converted to the declared type; construction succeeds exactly when no
\* field is in error; in a constructed record every supplied field holds a
\* value of its declared type and every omitted field holds its default.
C7_ConversionOrError ==
  Called =>
    /\ \A f \in DOMAIN kwargs :
         Schema(cls)[f].type \in ScalarTypes => (f \in res.errs <=> Rejected(f))
    /\ res.ok <=> res.errs = {}
    /\ res.ok => \A f \in DOMAIN kwargs :
         IF Supplied(f) THEN HasDeclaredType(Schema(cls)[f], res.v.v[f])
         ELSE SameVal(res.v.v[f], Schema(cls)[f].default)

C7_Witness ==
  /\ pc = "built" /\ cls = "Message" /\ res.ok
  /\ kwargs.role.t = "int" /\ kwargs.token_count.t = "str"
  /\ res.v.v.role.t = "str" /\ res.v.v.token_count.t = "int"

\* C8: a search_scope or search_type that is a str is never rejected, whether
\* or not it is one of the documented values, and the constructed payload
\* holds it unchanged.
C8_ScopeNotValidated ==
  (Called /\ cls = "MemorySearchPayload") =>
    /\ \A f \in {"search_scope", "search_type"} :
         kwargs[f].t = "str" =>
           /\ f \notin res.errs
           /\ res.ok => SameVal(res.v.v[f], kwargs[f])
    /\ (kwargs.search_scope.t = "str" /\ kwargs.search_type.t = "str"
          /\ OnlySupplied({"search_scope", "search_type"})) => res.ok

C8_Witness ==
  /\ pc = "built" /\ cls = "MemorySearchPayload" /\ res.ok
  /\ kwargs.search_scope.t = "str" /\ kwargs.search_scope.v \notin SearchScope
  /\ kwargs.search_type.t = "str" /\ kwargs.search_type.v \notin {"similarity", "mmr"}
  /\ SameVal(res.v.v.search_scope, kwargs.search_scope)

\* C9: on an instance of any of the six record types to_dict() is defined and
\* returns a mapping of its fields. The code defines to_dict() on Summary,
\* Message and Memory only: on a Session, a MemorySearchPayload or a
\* MemorySearchResult the call raises AttributeError.
C9_AllHaveToDict ==
  pc = "dumped" => (dump.status = "ok" /\ dump.v.t = "dict")

\* C10: Memory.to_dict() holds under messages a list of plain mappings, the
\* i-th being the to_dict() of the i-th message supplied, in the same number
\* and order, and under summary the to_dict() of the Summary, or None when
\* there is none; no record instance remains in the result.
C10_MemoryToDictNested ==
  (pc = "dumped" /\ cls = "Memory") =>
    LET ms == res.v.v.messages.v
        ds == dump.v.v.messages
    IN  /\ dump.status = "ok"
        /\ ds.t = "list"
        /\ Len(ds.v) = Len(ms)
        /\ Supplied("messages") => Len(ds.v) = Len(kwargs.messages.v)
        /\ \A i \in 1..Len(ms) :
             /\ ds.v[i].t = "dict"
             /\ ds.v[i] = ToDictCall(ms[i]).v
             /\ kwargs.messages.v[i].t = "Message" => ds.v[i].v = kwargs.messages.v[i].v
        /\ IF res.v.v.summary.t = "Summary"
           THEN /\ dump.v.v.summary.t = "dict"
                /\ dump.v.v.summary = ToDictCall(res.v.v.summary).v
           ELSE dump.v.v.summary.t = "None"

C10_Witness ==
  /\ pc = "dumped" /\ cls = "Memory" /\ dump.status = "ok"
  /\ Len(dump.v.v.messages.v) = 2
  /\ dump.v.v.messages.v[1] # dump.v.v.messages.v[2]
  /\ dump.v.v.summary.t = "dict"

====
